---- MODULE Spec2Model ----
(***************************************************************************)
(* Routine Grid API: the habit and habit-entry tables and the request      *)
(* handlers of apps/habits (views.py, serializers.py, models.py).          *)
(*                                                                         *)
(* A table is a function from the primary keys of its rows to the rows.    *)
(* A request payload or a query string is a function from the names of the *)
(* fields it carries to their values, so "f \in DOMAIN data" is Python's   *)
(* "f in data".  Every handler is one action: it takes a request while the *)
(* server is idle and leaves the request in req and its response in resp;  *)
(* Return sends the response and makes the server idle again.              *)
(***************************************************************************)
EXTENDS Integers, Sequences, FiniteSets, TLC

\* Bounds of the model: the largest value a payload carries (the field has no
\* upper limit) and the create requests in flight at once.
MaxValue == 2
MaxPending == 2

\* archived_at = None
NULL == 0

Anon == "anon"
Users == {"A", "B"}
Callers == Users \cup {Anon}

SINGULAR == "singular"
TIMED == "timed"
HabitTypes == {SINGULAR, TIMED}

\* Values timezone.now() returns (a timestamp a payload carries is 3), and the
\* calendar days of the entries.
Times == {1, 2}
Dates == {1, 2}

\* The primary keys each table hands out, in this order, and a request may
\* name: a key not handed out yet, or deleted, names no row.  A handler
\* relates at most two rows of a table (an entry and the entry its pair
\* collides with) and one row of each table (an entry and its habit).
HabitPks == {1, 2}
EntryPks == {1, 2}

VARIABLES habits, entries, nextHabitId, nextEntryId, pending, req, resp

vars == <<habits, entries, nextHabitId, nextEntryId, pending, req, resp>>
store == <<habits, entries, nextHabitId, nextEntryId>>

\* dict.get(key, default)
Get(data, key, default) == IF key \in DOMAIN data THEN data[key] ELSE default

\* The function f without the keys in gone.
\* (mutant: nothing is removed)
WithoutNothing(f, gone) == f
Without(f, gone) == [k \in DOMAIN f \ gone |-> f[k]]

Empty == <<>>
NoBody == {}
NoErrors == {}

\* A request: the handler, the caller, the primary key in the URL (0: none),
\* the query string and the payload
Request(op, user, pk, params, data) ==
    [op |-> op, user |-> user, pk |-> pk, params |-> params, data |-> data]

\* A response: the HTTP status, the primary key of the row it shows (0: none),
\* the validation errors as <<field, code>> pairs and the body: the primary
\* keys of the rows of a listing, or the habit row that serializer.data shows
Response(status, id, errs, body) ==
    [status |-> status, id |-> id, errs |-> errs, body |-> body]

NoRequest == Request("none", Anon, 0, Empty, Empty)
NoResponse == Response(0, 0, NoErrors, NoBody)

Idle == req = NoRequest

\* permissions.IsAuthenticated
\* (mutant: every caller passes)
IsAuthenticatedAny(user) == TRUE
IsAuthenticated(user) == user # Anon

\* IsOwner.has_object_permission
IsOwner(user, row) == row.user = user

\* str.lower() on the spellings of the archived and format parameters
\* (mutant: the string is taken as it is)
LowerKeepsCase(s) == s
Lower(s) ==
    CASE s = "TRUE" -> "true"
      [] s = "True" -> "true"
      [] s = "FALSE" -> "false"
      [] s = "False" -> "false"
      [] s = "CSV" -> "csv"
      [] s = "Csv" -> "csv"
      [] s = "JSON" -> "json"
      [] s = "Json" -> "json"
      [] OTHER -> s

\* int() on the spellings of the habit_id parameter: the strings it accepts
\* (any other raises ValueError) and the number it returns for each
IntStrings == {"1", "2", "3", "03"}
ParseInt(s) ==
    CASE s = "1" -> 1
      [] s = "2" -> 2
      [] s = "3" -> 3
      [] s = "03" -> 3

(***************************************************************************)
(* Habits                                                                  *)
(***************************************************************************)

\* HabitViewSet.get_queryset: the primary keys of the rows it selects
\* (mutants: the owner filter left out; the default listing left unfiltered)
HabitQuerysetNoOwner(user, action, params) ==
    LET owned == DOMAIN habits
        archived == {i \in owned : habits[i].archived_at # NULL}
        active == {i \in owned : habits[i].archived_at = NULL}
    IN  IF action = "list"
        THEN IF "archived" \in DOMAIN params
             THEN IF Lower(params.archived) \in {"true", "1"} THEN archived
                  ELSE IF Lower(params.archived) \in {"false", "0"} THEN active
                  ELSE owned
             ELSE active
        ELSE owned
HabitQuerysetNoDefault(user, action, params) ==
    LET owned == {i \in DOMAIN habits : habits[i].user = user}
        archived == {i \in owned : habits[i].archived_at # NULL}
        active == {i \in owned : habits[i].archived_at = NULL}
    IN  IF action = "list" /\ "archived" \in DOMAIN params
        THEN IF Lower(params.archived) \in {"true", "1"} THEN archived
             ELSE IF Lower(params.archived) \in {"false", "0"} THEN active
             ELSE owned
        ELSE owned
\* (mutants: the default filter applied to every action; a value of the
\* parameter that is neither true nor false taken as false)
HabitQuerysetActiveDetail(user, action, params) ==
    LET owned == {i \in DOMAIN habits : habits[i].user = user}
        archived == {i \in owned : habits[i].archived_at # NULL}
        active == {i \in owned : habits[i].archived_at = NULL}
    IN  IF action = "list" /\ "archived" \in DOMAIN params
        THEN IF Lower(params.archived) \in {"true", "1"} THEN archived
             ELSE IF Lower(params.archived) \in {"false", "0"} THEN active
             ELSE owned
        ELSE active
HabitQuerysetUnknownActive(user, action, params) ==
    LET owned == {i \in DOMAIN habits : habits[i].user = user}
        archived == {i \in owned : habits[i].archived_at # NULL}
        active == {i \in owned : habits[i].archived_at = NULL}
    IN  IF action = "list"
        THEN IF "archived" \in DOMAIN params
                /\ Lower(params.archived) \in {"true", "1"}
             THEN archived
             ELSE active
        ELSE owned
HabitQueryset(user, action, params) ==
    LET owned == {i \in DOMAIN habits : habits[i].user = user}
        archived == {i \in owned : habits[i].archived_at # NULL}
        active == {i \in owned : habits[i].archived_at = NULL}
    IN  IF action = "list"
        THEN IF "archived" \in DOMAIN params
             THEN IF Lower(params.archived) \in {"true", "1"} THEN archived
                  ELSE IF Lower(params.archived) \in {"false", "0"} THEN active
                  ELSE owned
             ELSE active
        ELSE owned

\* GenericAPIView.get_object on the habit queryset: 200, 404 or 403
HabitGetObject(user, action, pk) ==
    IF pk \notin HabitQueryset(user, action, <<>>) THEN 404
    ELSE IF ~IsOwner(user, habits[pk]) THEN 403
    ELSE 200

\* HabitSerializer.validate_name
\* (mutant: the limit is 2 characters)
ValidateNameTwo(value) ==
    IF value = "" THEN {<<"name", "required">>}
    ELSE IF Len(value) < 2 THEN {<<"name", "min_length">>}
    ELSE NoErrors
ValidateName(value) ==
    IF value = "" THEN {<<"name", "required">>}
    ELSE IF Len(value) < 3 THEN {<<"name", "min_length">>}
    ELSE NoErrors

\* HabitSerializer field validation (run_validation of a ModelSerializer)
HabitErrors(data, partial) ==
    LET nameErrs ==
            IF "name" \notin DOMAIN data
            THEN IF partial THEN NoErrors ELSE {<<"name", "required">>}
            ELSE IF data.name = "" THEN {<<"name", "blank">>}
            ELSE ValidateName(data.name)
        typeErrs ==
            IF "type" \in DOMAIN data /\ data.type \notin HabitTypes
            THEN {<<"type", "invalid_choice">>}
            ELSE NoErrors
    IN  nameErrs \cup typeErrs

\* Habit row written by HabitViewSet.perform_create: serializer.save(user=...)
\* (user is read-only in the serializer: the payload's user is not read)
\* (mutant: the payload's user is taken when there is one)
NewHabitPayloadOwner(user, data) ==
    [user |-> Get(data, "user", user),
     name |-> data.name,
     type |-> Get(data, "type", SINGULAR),
     archived_at |-> Get(data, "archived_at", NULL)]
NewHabit(user, data) ==
    [user |-> user,
     name |-> data.name,
     type |-> Get(data, "type", SINGULAR),
     archived_at |-> Get(data, "archived_at", NULL)]

\* ModelSerializer.update: every validated field is set on the instance
UpdatedHabit(row, data) ==
    [user |-> row.user,
     name |-> Get(data, "name", row.name),
     type |-> Get(data, "type", row.type),
     archived_at |-> Get(data, "archived_at", row.archived_at)]

\* on_delete=models.CASCADE of HabitEntry.habit
\* (mutant: the entries are left in place)
CascadeNothing(pk) == entries
Cascade(pk) == Without(entries, {e \in DOMAIN entries : entries[e].habit = pk})

HabitList(user, params) ==
    /\ Idle
    /\ req' = Request("habit_list", user, 0, params, Empty)
    /\ resp' = IF ~IsAuthenticated(user)
               THEN Response(401, 0, NoErrors, NoBody)
               ELSE Response(200, 0, NoErrors, HabitQueryset(user, "list", params))
    /\ UNCHANGED <<store, pending>>

HabitCreate(user, data) ==
    /\ Idle
    /\ req' = Request("habit_create", user, 0, Empty, data)
    /\ IF ~IsAuthenticated(user)
       THEN /\ resp' = Response(401, 0, NoErrors, NoBody)
            /\ UNCHANGED <<store, pending>>
       ELSE IF HabitErrors(data, FALSE) # NoErrors
       THEN /\ resp' = Response(400, 0, HabitErrors(data, FALSE), NoBody)
            /\ UNCHANGED <<store, pending>>
       ELSE /\ nextHabitId \in HabitPks
            /\ habits' = habits @@ (nextHabitId :> NewHabit(user, data))
            /\ nextHabitId' = nextHabitId + 1
            /\ resp' = Response(201, nextHabitId, NoErrors, {NewHabit(user, data)})
            /\ UNCHANGED <<entries, nextEntryId, pending>>

HabitRetrieve(user, pk) ==
    /\ Idle
    /\ req' = Request("habit_retrieve", user, pk, Empty, Empty)
    /\ resp' = IF ~IsAuthenticated(user)
               THEN Response(401, 0, NoErrors, NoBody)
               ELSE IF HabitGetObject(user, "retrieve", pk) # 200
               THEN Response(HabitGetObject(user, "retrieve", pk), 0,
                             NoErrors, NoBody)
               ELSE Response(200, pk, NoErrors, {habits[pk]})
    /\ UNCHANGED <<store, pending>>

\* update (partial = FALSE) and partial_update (partial = TRUE)
HabitUpdate(user, pk, data, partial) ==
    LET op == IF partial THEN "habit_partial_update" ELSE "habit_update"
        found == HabitGetObject(user, op, pk)
    IN  /\ Idle
        /\ req' = Request(op, user, pk, Empty, data)
        /\ IF ~IsAuthenticated(user)
           THEN /\ resp' = Response(401, 0, NoErrors, NoBody)
                /\ UNCHANGED <<store, pending>>
           ELSE IF found # 200
           THEN /\ resp' = Response(found, 0, NoErrors, NoBody)
                /\ UNCHANGED <<store, pending>>
           ELSE IF HabitErrors(data, partial) # NoErrors
           THEN /\ resp' = Response(400, 0, HabitErrors(data, partial), NoBody)
                /\ UNCHANGED <<store, pending>>
           ELSE /\ habits' = [habits EXCEPT ![pk] = UpdatedHabit(habits[pk], data)]
                /\ resp' = Response(200, pk, NoErrors, {habits'[pk]})
                /\ UNCHANGED <<entries, nextHabitId, nextEntryId, pending>>

\* HabitViewSet.destroy with perform_destroy: instance.delete()
HabitDestroy(user, pk) ==
    LET found == HabitGetObject(user, "destroy", pk)
    IN  /\ Idle
        /\ req' = Request("habit_destroy", user, pk, Empty, Empty)
        /\ IF ~IsAuthenticated(user)
           THEN /\ resp' = Response(401, 0, NoErrors, NoBody)
                /\ UNCHANGED <<store, pending>>
           ELSE IF found # 200
           THEN /\ resp' = Response(found, 0, NoErrors, NoBody)
                /\ UNCHANGED <<store, pending>>
           ELSE /\ habits' = Without(habits, {pk})
                /\ entries' = Cascade(pk)
                /\ resp' = Response(204, 0, NoErrors, NoBody)
                /\ UNCHANGED <<nextHabitId, nextEntryId, pending>>

\* HabitViewSet.archive; now is the value of timezone.now()
\* (mutant: the test of archived_at left out)
HabitArchiveAlways(user, pk, now) ==
    LET found == HabitGetObject(user, "archive", pk)
    IN  /\ Idle
        /\ req' = Request("habit_archive", user, pk, Empty, Empty)
        /\ IF ~IsAuthenticated(user)
           THEN /\ resp' = Response(401, 0, NoErrors, NoBody)
                /\ UNCHANGED <<store, pending>>
           ELSE IF found # 200
           THEN /\ resp' = Response(found, 0, NoErrors, NoBody)
                /\ UNCHANGED <<store, pending>>
           ELSE /\ habits' = [habits EXCEPT ![pk].archived_at = now]
                /\ resp' = Response(200, pk, NoErrors, {habits'[pk]})
                /\ UNCHANGED <<entries, nextHabitId, nextEntryId, pending>>
HabitArchive(user, pk, now) ==
    LET found == HabitGetObject(user, "archive", pk)
    IN  /\ Idle
        /\ req' = Request("habit_archive", user, pk, Empty, Empty)
        /\ IF ~IsAuthenticated(user)
           THEN /\ resp' = Response(401, 0, NoErrors, NoBody)
                /\ UNCHANGED <<store, pending>>
           ELSE IF found # 200
           THEN /\ resp' = Response(found, 0, NoErrors, NoBody)
                /\ UNCHANGED <<store, pending>>
           ELSE /\ habits' = IF habits[pk].archived_at = NULL
                             THEN [habits EXCEPT ![pk].archived_at = now]
                             ELSE habits
                /\ resp' = Response(200, pk, NoErrors, {habits'[pk]})
                /\ UNCHANGED <<entries, nextHabitId, nextEntryId, pending>>

\* HabitViewSet.unarchive
\* (mutant: archived_at left as it is)
HabitUnarchiveKeeps(user, pk) ==
    LET found == HabitGetObject(user, "unarchive", pk)
    IN  /\ Idle
        /\ req' = Request("habit_unarchive", user, pk, Empty, Empty)
        /\ IF ~IsAuthenticated(user)
           THEN /\ resp' = Response(401, 0, NoErrors, NoBody)
                /\ UNCHANGED <<store, pending>>
           ELSE IF found # 200
           THEN /\ resp' = Response(found, 0, NoErrors, NoBody)
                /\ UNCHANGED <<store, pending>>
           ELSE /\ resp' = Response(200, pk, NoErrors, {habits[pk]})
                /\ UNCHANGED <<store, pending>>
HabitUnarchive(user, pk) ==
    LET found == HabitGetObject(user, "unarchive", pk)
    IN  /\ Idle
        /\ req' = Request("habit_unarchive", user, pk, Empty, Empty)
        /\ IF ~IsAuthenticated(user)
           THEN /\ resp' = Response(401, 0, NoErrors, NoBody)
                /\ UNCHANGED <<store, pending>>
           ELSE IF found # 200
           THEN /\ resp' = Response(found, 0, NoErrors, NoBody)
                /\ UNCHANGED <<store, pending>>
           ELSE /\ habits' = IF habits[pk].archived_at # NULL
                             THEN [habits EXCEPT ![pk].archived_at = NULL]
                             ELSE habits
                /\ resp' = Response(200, pk, NoErrors, {habits'[pk]})
                /\ UNCHANGED <<entries, nextHabitId, nextEntryId, pending>>

(***************************************************************************)
(* Habit entries                                                           *)
(***************************************************************************)

\* HabitEntryViewSet.get_queryset: the primary keys of the rows it selects
\* (mutant: the filter on the caller left out)
EntryQuerysetNoOwner(user, params) ==
    IF "habit_id" \in DOMAIN params /\ params.habit_id \in IntStrings
    THEN {e \in DOMAIN entries : entries[e].habit = ParseInt(params.habit_id)}
    ELSE DOMAIN entries
\* (mutant: end_date taken as an exclusive limit)
EntryQuerysetEndExclusive(user, params) ==
    LET owned == {e \in DOMAIN entries : entries[e].user = user}
        byHabit ==
            IF "habit_id" \in DOMAIN params /\ params.habit_id # ""
               /\ params.habit_id \in IntStrings
            THEN {e \in owned : entries[e].habit = ParseInt(params.habit_id)}
            ELSE owned
        byStart ==
            IF "start_date" \in DOMAIN params
            THEN {e \in byHabit : entries[e].entry_date >= params.start_date}
            ELSE byHabit
        byEnd ==
            IF "end_date" \in DOMAIN params
            THEN {e \in byStart : entries[e].entry_date < params.end_date}
            ELSE byStart
    IN  IF "date" \in DOMAIN params
        THEN {e \in byEnd : entries[e].entry_date = params.date}
        ELSE byEnd
EntryQueryset(user, params) ==
    LET owned == {e \in DOMAIN entries : entries[e].user = user}
        byHabit ==
            IF "habit_id" \in DOMAIN params /\ params.habit_id # ""
               /\ params.habit_id \in IntStrings
            THEN {e \in owned : entries[e].habit = ParseInt(params.habit_id)}
            ELSE owned
        byStart ==
            IF "start_date" \in DOMAIN params
            THEN {e \in byHabit : entries[e].entry_date >= params.start_date}
            ELSE byHabit
        byEnd ==
            IF "end_date" \in DOMAIN params
            THEN {e \in byStart : entries[e].entry_date <= params.end_date}
            ELSE byStart
    IN  IF "date" \in DOMAIN params
        THEN {e \in byEnd : entries[e].entry_date = params.date}
        ELSE byEnd

\* GenericAPIView.get_object on the entry queryset: 200, 404 or 403
EntryGetObject(user, params, pk) ==
    IF pk \notin EntryQueryset(user, params) THEN 404
    ELSE IF ~IsOwner(user, entries[pk]) THEN 403
    ELSE 200

\* HabitEntrySerializer.validate_habit
\* (mutant: the ownership check left out)
ValidateHabitNoOwner(user, habit) ==
    IF habits[habit].archived_at # NULL THEN {<<"habit", "archived">>}
    ELSE NoErrors
\* (mutant: the check of archived_at left out)
ValidateHabitNoArchive(user, habit) ==
    IF habits[habit].user # user THEN {<<"habit", "not_owner">>}
    ELSE NoErrors
ValidateHabit(user, habit) ==
    IF habits[habit].user # user THEN {<<"habit", "not_owner">>}
    ELSE IF habits[habit].archived_at # NULL THEN {<<"habit", "archived">>}
    ELSE NoErrors

\* HabitEntrySerializer.to_internal_value: the fields in declared order, each
\* with its validate_<field>; the errors of all fields are collected
\* (mutant: validate_habit runs on a full payload only)
EntryFieldErrorsCreateOnly(user, data, partial) ==
    LET habitErrs ==
            IF "habit" \notin DOMAIN data
            THEN IF partial THEN NoErrors ELSE {<<"habit", "required">>}
            ELSE IF data.habit \notin DOMAIN habits
            THEN {<<"habit", "does_not_exist">>}
            ELSE IF partial THEN NoErrors
            ELSE ValidateHabit(user, data.habit)
        dateErrs ==
            IF "entry_date" \notin DOMAIN data /\ ~partial
            THEN {<<"entry_date", "required">>}
            ELSE NoErrors
        valueErrs ==
            IF "value" \in DOMAIN data /\ data.value < 0
            THEN {<<"value", "min_value">>}
            ELSE NoErrors
    IN  habitErrs \cup dateErrs \cup valueErrs
EntryFieldErrors(user, data, partial) ==
    LET habitErrs ==
            IF "habit" \notin DOMAIN data
            THEN IF partial THEN NoErrors ELSE {<<"habit", "required">>}
            ELSE IF data.habit \notin DOMAIN habits
            THEN {<<"habit", "does_not_exist">>}
            ELSE ValidateHabit(user, data.habit)
        dateErrs ==
            IF "entry_date" \notin DOMAIN data /\ ~partial
            THEN {<<"entry_date", "required">>}
            ELSE NoErrors
        valueErrs ==
            IF "value" \in DOMAIN data /\ data.value < 0
            THEN {<<"value", "min_value">>}
            ELSE NoErrors
    IN  habitErrs \cup dateErrs \cup valueErrs

\* UniqueTogetherValidator of unique_together [habit, entry_date]; instance is
\* the primary key of the row being updated, 0 on create
\* (mutant: the serializer carries no such validator)
UniqueTogetherAbsent(data, instance) == NoErrors
UniqueTogether(data, instance) ==
    LET habit == IF "habit" \in DOMAIN data THEN data.habit
                 ELSE entries[instance].habit
        date == IF "entry_date" \in DOMAIN data THEN data.entry_date
                ELSE entries[instance].entry_date
    IN  IF \E e \in DOMAIN entries \ {instance} :
              entries[e].habit = habit /\ entries[e].entry_date = date
        THEN {<<"non_field_errors", "unique">>}
        ELSE NoErrors

\* HabitEntrySerializer.validate
\* (mutant: the timed branch accepts 0)
ValidateTimedZero(data) ==
    IF "habit" \in DOMAIN data /\ "value" \in DOMAIN data
    THEN IF habits[data.habit].type = SINGULAR /\ data.value # 1
         THEN {<<"non_field_errors", "singular_value">>}
         ELSE IF habits[data.habit].type = TIMED /\ data.value < 0
         THEN {<<"non_field_errors", "timed_value">>}
         ELSE NoErrors
    ELSE NoErrors
Validate(data) ==
    IF "habit" \in DOMAIN data /\ "value" \in DOMAIN data
    THEN IF habits[data.habit].type = SINGULAR /\ data.value # 1
         THEN {<<"non_field_errors", "singular_value">>}
         ELSE IF habits[data.habit].type = TIMED /\ data.value <= 0
         THEN {<<"non_field_errors", "timed_value">>}
         ELSE NoErrors
    ELSE NoErrors

\* Serializer.run_validation: fields, then validators, then validate()
\* (mutant: validate() before the validators)
EntryErrorsValidateFirst(user, data, instance, partial) ==
    IF EntryFieldErrors(user, data, partial) # NoErrors
    THEN EntryFieldErrors(user, data, partial)
    ELSE IF Validate(data) # NoErrors
    THEN Validate(data)
    ELSE UniqueTogether(data, instance)
EntryErrors(user, data, instance, partial) ==
    IF EntryFieldErrors(user, data, partial) # NoErrors
    THEN EntryFieldErrors(user, data, partial)
    ELSE IF UniqueTogether(data, instance) # NoErrors
    THEN UniqueTogether(data, instance)
    ELSE Validate(data)

\* HabitEntrySerializer.create: the row to insert
\* (user is read-only in the serializer: the payload's user is not read)
\* (mutant: the payload's user is taken when there is one)
NewEntryPayloadUser(user, data) ==
    [habit |-> data.habit,
     user |-> Get(data, "user", user),
     entry_date |-> data.entry_date,
     value |-> Get(data, "value", 1)]
NewEntry(user, data) ==
    [habit |-> data.habit,
     user |-> user,
     entry_date |-> data.entry_date,
     value |-> Get(data, "value", 1)]

\* ModelSerializer.update: every validated field is set on the instance
UpdatedEntry(row, data) ==
    [habit |-> Get(data, "habit", row.habit),
     user |-> row.user,
     entry_date |-> Get(data, "entry_date", row.entry_date),
     value |-> Get(data, "value", row.value)]

\* The constraints of the entry table: the foreign key to the habit and
\* unique_together [habit, entry_date]; self is the row left out (0: none)
IntegrityError(row, self) ==
    \/ row.habit \notin DOMAIN habits
    \/ \E e \in DOMAIN entries \ {self} :
          entries[e].habit = row.habit /\ entries[e].entry_date = row.entry_date

\* The INSERT of serializer.save() and the response to the create request
InsertEntry(row) ==
    IF IntegrityError(row, 0)
    THEN /\ resp' = Response(500, 0, NoErrors, NoBody)
         /\ UNCHANGED store
    ELSE /\ nextEntryId \in EntryPks
         /\ entries' = entries @@ (nextEntryId :> row)
         /\ nextEntryId' = nextEntryId + 1
         /\ resp' = Response(201, nextEntryId, NoErrors, NoBody)
         /\ UNCHANGED <<habits, nextHabitId>>

EntryList(user, params) ==
    /\ Idle
    /\ req' = Request("entry_list", user, 0, params, Empty)
    /\ resp' = IF ~IsAuthenticated(user)
               THEN Response(401, 0, NoErrors, NoBody)
               ELSE Response(200, 0, NoErrors, EntryQueryset(user, params))
    /\ UNCHANGED <<store, pending>>

\* HabitEntryViewSet.create handled without interruption
EntryCreate(user, data) ==
    /\ Idle
    /\ req' = Request("entry_create", user, 0, Empty, data)
    /\ UNCHANGED pending
    /\ IF ~IsAuthenticated(user)
       THEN /\ resp' = Response(401, 0, NoErrors, NoBody)
            /\ UNCHANGED store
       ELSE IF EntryErrors(user, data, 0, FALSE) # NoErrors
       THEN /\ resp' = Response(400, 0, EntryErrors(user, data, 0, FALSE), NoBody)
            /\ UNCHANGED store
       ELSE InsertEntry(NewEntry(user, data))

EntryRetrieve(user, params, pk) ==
    /\ Idle
    /\ req' = Request("entry_retrieve", user, pk, params, Empty)
    /\ resp' = IF ~IsAuthenticated(user)
               THEN Response(401, 0, NoErrors, NoBody)
               ELSE IF EntryGetObject(user, params, pk) # 200
               THEN Response(EntryGetObject(user, params, pk), 0, NoErrors, NoBody)
               ELSE Response(200, pk, NoErrors, NoBody)
    /\ UNCHANGED <<store, pending>>

\* update (partial = FALSE) and partial_update (partial = TRUE)
\* (mutant: the fields other than habit are stored before the request is
\* found invalid)
EntryUpdateWritesFirst(user, params, pk, data, partial) ==
    LET op == IF partial THEN "entry_partial_update" ELSE "entry_update"
        found == EntryGetObject(user, params, pk)
    IN  /\ Idle
        /\ req' = Request(op, user, pk, params, data)
        /\ IF ~IsAuthenticated(user)
           THEN /\ resp' = Response(401, 0, NoErrors, NoBody)
                /\ UNCHANGED <<store, pending>>
           ELSE IF found # 200
           THEN /\ resp' = Response(found, 0, NoErrors, NoBody)
                /\ UNCHANGED <<store, pending>>
           ELSE IF EntryErrors(user, data, pk, partial) # NoErrors
           THEN /\ resp' = Response(400, 0, EntryErrors(user, data, pk, partial),
                                    NoBody)
                /\ entries' = [entries EXCEPT
                                 ![pk] = UpdatedEntry(entries[pk],
                                                      Without(data, {"habit"}))]
                /\ UNCHANGED <<habits, nextHabitId, nextEntryId, pending>>
           ELSE /\ entries' = [entries EXCEPT
                                 ![pk] = UpdatedEntry(entries[pk], data)]
                /\ resp' = Response(200, pk, NoErrors, NoBody)
                /\ UNCHANGED <<habits, nextHabitId, nextEntryId, pending>>
EntryUpdate(user, params, pk, data, partial) ==
    LET op == IF partial THEN "entry_partial_update" ELSE "entry_update"
        found == EntryGetObject(user, params, pk)
    IN  /\ Idle
        /\ req' = Request(op, user, pk, params, data)
        /\ IF ~IsAuthenticated(user)
           THEN /\ resp' = Response(401, 0, NoErrors, NoBody)
                /\ UNCHANGED <<store, pending>>
           ELSE IF found # 200
           THEN /\ resp' = Response(found, 0, NoErrors, NoBody)
                /\ UNCHANGED <<store, pending>>
           ELSE IF EntryErrors(user, data, pk, partial) # NoErrors
           THEN /\ resp' = Response(400, 0, EntryErrors(user, data, pk, partial),
                                    NoBody)
                /\ UNCHANGED <<store, pending>>
           ELSE /\ entries' = [entries EXCEPT
                                 ![pk] = UpdatedEntry(entries[pk], data)]
                /\ resp' = Response(200, pk, NoErrors, NoBody)
                /\ UNCHANGED <<habits, nextHabitId, nextEntryId, pending>>

\* HabitEntryViewSet.destroy
EntryDestroy(user, params, pk) ==
    LET found == EntryGetObject(user, params, pk)
    IN  /\ Idle
        /\ req' = Request("entry_destroy", user, pk, params, Empty)
        /\ IF ~IsAuthenticated(user)
           THEN /\ resp' = Response(401, 0, NoErrors, NoBody)
                /\ UNCHANGED <<store, pending>>
           ELSE IF found # 200
           THEN /\ resp' = Response(found, 0, NoErrors, NoBody)
                /\ UNCHANGED <<store, pending>>
           ELSE /\ entries' = Without(entries, {pk})
                /\ resp' = Response(204, 0, NoErrors, NoBody)
                /\ UNCHANGED <<habits, nextHabitId, nextEntryId, pending>>

(***************************************************************************)
(* Data export (apps/users/views.py)                                       *)
(***************************************************************************)

\* habits_data: what the export shows of each habit of the user
\* (mutant: the active habits only)
HabitsDataActive(user) ==
    {[id |-> h, archived_at |-> habits[h].archived_at] :
        h \in {i \in DOMAIN habits :
                  habits[i].user = user /\ habits[i].archived_at = NULL}}
HabitsData(user) ==
    {[id |-> h, archived_at |-> habits[h].archived_at] :
        h \in {i \in DOMAIN habits : habits[i].user = user}}

\* entries_data: what the export shows of each entry of the user
EntriesData(user) ==
    {[id |-> e, habit_id |-> entries[e].habit] :
        e \in {i \in DOMAIN entries : entries[i].user = user}}

\* the summary section of the JSON document
Summary(habits_data, entries_data) ==
    [total_habits |-> Cardinality(habits_data),
     total_entries |-> Cardinality(entries_data),
     active_habits |->
        Cardinality({h \in habits_data : h.archived_at = NULL}),
     archived_habits |->
        Cardinality({h \in habits_data : h.archived_at # NULL})]

\* export_user_data
ExportUserData(user, params) ==
    LET export_format == Lower(Get(params, "format", ""))
        document ==
            IF export_format = "json"
            THEN [format |-> "json",
                  habits |-> HabitsData(user),
                  entries |-> EntriesData(user),
                  summary |-> Summary(HabitsData(user), EntriesData(user))]
            ELSE [format |-> "csv",
                  habits |-> HabitsData(user),
                  entries |-> EntriesData(user)]
    IN  /\ Idle
        /\ req' = Request("export", user, 0, params, Empty)
        /\ resp' = IF ~IsAuthenticated(user)
                   THEN Response(401, 0, NoErrors, NoBody)
                   ELSE IF export_format \notin {"csv", "json"}
                   THEN Response(400, 0, {<<"error", "invalid_format">>}, NoBody)
                   ELSE Response(200, 0, NoErrors, {document})
        /\ UNCHANGED <<store, pending>>

\* The response leaves the server, which takes the next request
Return ==
    /\ ~Idle
    /\ req' = NoRequest
    /\ resp' = NoResponse
    /\ UNCHANGED <<store, pending>>

(***************************************************************************)
(* Concurrent create requests: each validates against the table as it is   *)
(* when it reads it and inserts later; other requests run in between.      *)
(* pending holds the requests that have passed validation.                 *)
(***************************************************************************)

\* HabitEntryViewSet.create up to serializer.is_valid()
EntryCreateValidate(user, data) ==
    /\ Idle
    /\ Len(pending) < MaxPending
    /\ IsAuthenticated(user)
    /\ IF EntryErrors(user, data, 0, FALSE) # NoErrors
       THEN /\ req' = Request("entry_create", user, 0, Empty, data)
            /\ resp' = Response(400, 0, EntryErrors(user, data, 0, FALSE), NoBody)
            /\ UNCHANGED <<store, pending>>
       ELSE /\ pending' = Append(pending, [user |-> user, data |-> data])
            /\ UNCHANGED <<store, req, resp>>

\* HabitEntryViewSet.perform_create of the i-th request in flight
EntryCreateSave(i) ==
    /\ Idle
    /\ i \in 1..Len(pending)
    /\ req' = Request("entry_create", pending[i].user, 0, Empty, pending[i].data)
    /\ pending' = [j \in 1..(Len(pending) - 1) |->
                      IF j < i THEN pending[j] ELSE pending[j + 1]]
    /\ InsertEntry(NewEntry(pending[i].user, pending[i].data))

(***************************************************************************)
(* Requests the clients send                                               *)
(***************************************************************************)

HabitListParams ==
    {Empty} \cup {[archived |-> a] :
                    a \in {"true", "1", "false", "0", "TRUE", "False", "all", ""}}

HabitPayloads ==
    {Empty,
     [name |-> "Run"], [name |-> "Run", type |-> TIMED],
     [name |-> "Run", archived_at |-> 3],
     [name |-> "Run", user |-> "B"], [user |-> "B"],
     [name |-> "ab"], [name |-> ""],
     [type |-> SINGULAR], [type |-> TIMED], [type |-> "weekly"],
     [archived_at |-> NULL], [archived_at |-> 3]}

\* The payloads that create a habit of either type, and those that retype one
NewHabitPayloads == {[name |-> "Run"], [name |-> "Run", type |-> TIMED]}
RetypePayloads == {[type |-> SINGULAR], [type |-> TIMED]}
\* Payloads the habit serializer rejects
BadHabitPayloads == {[name |-> "ab"], [name |-> "Run", type |-> "weekly"]}

EntryListParams ==
    {h @@ s @@ e @@ d :
        h \in {Empty} \cup {[habit_id |-> x] : x \in {"1", "2", "03", "x", ""}},
        s \in {Empty} \cup {[start_date |-> x] : x \in Dates},
        e \in {Empty} \cup {[end_date |-> x] : x \in Dates},
        d \in {Empty} \cup {[date |-> x] : x \in Dates}}

EntryDetailParams == {Empty, [habit_id |-> "1"]}

\* Payloads that carry every required field
FullEntryPayloads ==
    {h @@ d @@ v :
        h \in {[habit |-> x] : x \in HabitPks},
        d \in {[entry_date |-> x] : x \in Dates},
        v \in {Empty} \cup {[value |-> x] : x \in 0..MaxValue}}

\* Payloads that carry some fields only
PartEntryPayloads ==
    {Empty}
    \cup {[value |-> x] : x \in -1..MaxValue}
    \cup {[habit |-> x] : x \in HabitPks}
    \cup {[entry_date |-> x] : x \in Dates}

EntryPayloads ==
    FullEntryPayloads \cup PartEntryPayloads
    \cup {[habit |-> 1, entry_date |-> 1, value |-> -1]}

ExportParams ==
    {Empty} \cup {[format |-> f] :
                    f \in {"csv", "json", "CSV", "Csv", "JSON", "Json", "xml", ""}}

Init ==
    /\ habits = Empty
    /\ entries = Empty
    /\ nextHabitId = 1
    /\ nextEntryId = 1
    /\ pending = <<>>
    /\ req = NoRequest
    /\ resp = NoResponse

\* The requests of the entry API, against habits that either user makes,
\* retypes, archives, unarchives and deletes
Next ==
    \/ Idle /\ \E u \in Users, d \in NewHabitPayloads : HabitCreate(u, d)
    \/ Idle /\ \E u \in Users, pk \in HabitPks, d \in RetypePayloads :
          HabitUpdate(u, pk, d, TRUE)
    \/ Idle /\ \E d \in BadHabitPayloads : HabitCreate("A", d)
    \/ Idle /\ \E pk \in HabitPks, d \in BadHabitPayloads, partial \in BOOLEAN :
          HabitUpdate("A", pk, d, partial)
    \/ Idle /\ \E u \in Users, pk \in HabitPks : HabitDestroy(u, pk)
    \/ Idle /\ \E u \in Users, pk \in HabitPks : HabitArchive(u, pk, 1)
    \/ Idle /\ \E u \in Users, pk \in HabitPks : HabitUnarchive(u, pk)
    \/ Idle /\ \E u \in Callers : EntryList(u, Empty)
    \/ Idle /\ \E u \in Users, d \in EntryPayloads : EntryCreate(u, d)
    \/ Idle /\ EntryCreate(Anon, [habit |-> 1, entry_date |-> 1])
    \/ Idle /\ \E h \in HabitPks :
          EntryCreate("A", [habit |-> h, entry_date |-> 1, user |-> "B"])
    \/ Idle /\ \E pk \in EntryPks :
          EntryUpdate("A", Empty, pk, [user |-> "B"], TRUE)
    \/ Idle /\ \E u \in Users, q \in EntryDetailParams, pk \in EntryPks :
          EntryRetrieve(u, q, pk)
    \/ Idle /\ EntryRetrieve(Anon, Empty, 1)
    \/ Idle /\ \E u \in Users, pk \in EntryPks, d \in FullEntryPayloads :
          EntryUpdate(u, Empty, pk, d, FALSE)
    \/ Idle /\ \E u \in Users, q \in EntryDetailParams, pk \in EntryPks,
          d \in PartEntryPayloads : EntryUpdate(u, q, pk, d, TRUE)
    \/ Idle /\ \E partial \in BOOLEAN :
          EntryUpdate(Anon, Empty, 1, [value |-> 1], partial)
    \/ Idle /\ \E u \in Users, q \in EntryDetailParams, pk \in EntryPks :
          EntryDestroy(u, q, pk)
    \/ Idle /\ EntryDestroy(Anon, Empty, 1)
    \/ Return

Spec == Init /\ [][Next]_vars

\* The requests of the habit API, against habits that carry entries
NextHabits ==
    \/ Idle /\ \E u \in Callers, q \in HabitListParams : HabitList(u, q)
    \/ Idle /\ \E u \in Users, d \in HabitPayloads : HabitCreate(u, d)
    \/ Idle /\ HabitCreate(Anon, [name |-> "Run"])
    \/ Idle /\ \E u \in Callers, pk \in HabitPks : HabitRetrieve(u, pk)
    \/ Idle /\ \E u \in Users, pk \in HabitPks, d \in HabitPayloads,
          partial \in BOOLEAN : HabitUpdate(u, pk, d, partial)
    \/ Idle /\ \E partial \in BOOLEAN :
          HabitUpdate(Anon, 1, [name |-> "Run"], partial)
    \/ Idle /\ \E u \in Callers, pk \in HabitPks : HabitDestroy(u, pk)
    \/ Idle /\ \E u \in Callers, pk \in HabitPks, now \in Times :
          HabitArchive(u, pk, now)
    \/ Idle /\ \E u \in Callers, pk \in HabitPks : HabitUnarchive(u, pk)
    \/ Idle /\ \E u \in Users, h \in HabitPks :
          EntryCreate(u, [habit |-> h, entry_date |-> 1])
    \/ Idle /\ EntryList(Anon, Empty)
    \/ Idle /\ EntryCreate(Anon, [habit |-> 1, entry_date |-> 2])
    \/ Idle /\ \E pk \in EntryPks : EntryRetrieve(Anon, Empty, pk)
    \/ Idle /\ \E pk \in EntryPks, partial \in BOOLEAN :
          EntryUpdate(Anon, Empty, pk, [value |-> 1], partial)
    \/ Idle /\ \E pk \in EntryPks : EntryDestroy(Anon, Empty, pk)
    \/ Return

SpecHabits == Init /\ [][NextHabits]_vars

\* Create requests that overlap: validated in one step, inserted in another
NextRace ==
    \/ Idle /\ \E u \in Users, d \in NewHabitPayloads : HabitCreate(u, d)
    \/ Idle /\ \E u \in Users, d \in FullEntryPayloads : EntryCreateValidate(u, d)
    \/ Idle /\ \E i \in 1..MaxPending : EntryCreateSave(i)
    \/ Return

SpecRace == Init /\ [][NextRace]_vars

\* The export, over habits and entries of both users
NextExport ==
    \/ Idle /\ \E u \in Users, d \in NewHabitPayloads : HabitCreate(u, d)
    \/ Idle /\ \E u \in Users, pk \in HabitPks, now \in Times :
          HabitArchive(u, pk, now)
    \/ Idle /\ \E u \in Users, pk \in HabitPks : HabitUnarchive(u, pk)
    \/ Idle /\ \E u \in Users, h \in HabitPks, d \in Dates :
          EntryCreate(u, [habit |-> h, entry_date |-> d])
    \/ Idle /\ \E u \in Callers, q \in ExportParams : ExportUserData(u, q)
    \/ Return

SpecExport == Init /\ [][NextExport]_vars

\* The entry listing with every combination of its filters, over entries of
\* both users
NextList ==
    \/ Idle /\ \E u \in Users, d \in NewHabitPayloads : HabitCreate(u, d)
    \/ Idle /\ \E u \in Users, d \in FullEntryPayloads : EntryCreate(u, d)
    \/ Idle /\ \E u \in Callers, q \in EntryListParams : EntryList(u, q)
    \/ Return

SpecList == Init /\ [][NextList]_vars

(***************************************************************************)
(* Properties                                                              *)
(***************************************************************************)

HabitDetailOps ==
    {"habit_retrieve", "habit_update", "habit_partial_update", "habit_destroy",
     "habit_archive", "habit_unarchive"}
EntryDetailOps ==
    {"entry_retrieve", "entry_update", "entry_partial_update", "entry_destroy"}
EntryUpdateOps == {"entry_update", "entry_partial_update"}

NotFound == Response(404, 0, NoErrors, NoBody)

\* No two rows of the entry table t share (habit, entry_date)
Unique(t) ==
    \A a, b \in DOMAIN t :
        (t[a].habit = t[b].habit /\ t[a].entry_date = t[b].entry_date) => a = b

\* The payload names the (habit, entry_date) of a stored entry
Duplicate(data) ==
    /\ {"habit", "entry_date"} \subseteq DOMAIN data
    /\ \E e \in DOMAIN entries :
          entries[e].habit = data.habit /\ entries[e].entry_date = data.entry_date

\* The value rule of the data model: 1 for singular, above 0 for timed
BadValue(type, value) ==
    \/ type = SINGULAR /\ value # 1
    \/ type = TIMED /\ value <= 0

NonField(errs) == errs # NoErrors /\ \A e \in errs : e[1] = "non_field_errors"

\* C1: a detail request (retrieve, update, partial update, destroy, archive,
\* unarchive) of an authenticated user on a habit of another user is answered
\* as one on a key that names no habit, with not-found, and changes no row.
C1_ForeignHabitNotFound ==
    [][(/\ req'.op \in HabitDetailOps
        /\ req'.user \in Users
        /\ (req'.pk \in DOMAIN habits => habits[req'.pk].user # req'.user))
       => (resp' = NotFound /\ UNCHANGED store)]_vars

C1_Witness ==
    /\ req.op = "habit_destroy"
    /\ req.user \in Users
    /\ req.pk \in DOMAIN habits
    /\ habits[req.pk].user # req.user
    /\ resp = NotFound
    /\ \E e \in DOMAIN entries : entries[e].habit = req.pk

\* C2: a detail request (retrieve, update, partial update, destroy) of an
\* authenticated user on an entry of another user is answered as one on a key
\* that names no entry, with not-found, and changes no row.
C2_ForeignEntryNotFound ==
    [][(/\ req'.op \in EntryDetailOps
        /\ req'.user \in Users
        /\ (req'.pk \in DOMAIN entries => entries[req'.pk].user # req'.user))
       => (resp' = NotFound /\ UNCHANGED store)]_vars

C2_Witness ==
    /\ req.op = "entry_partial_update"
    /\ req.user \in Users
    /\ req.pk \in DOMAIN entries
    /\ entries[req.pk].user # req.user
    /\ "value" \in DOMAIN req.data
    /\ resp = NotFound

\* C3: after a habit destroy answered with no-content the habit's row still
\* exists, its archived_at is set, and the caller's default listing lacks it.
C3_DestroyIsSoftDelete ==
    (req.op = "habit_destroy" /\ resp.status = 204)
    => /\ req.pk \in DOMAIN habits
       /\ habits[req.pk].archived_at # NULL
       /\ req.pk \notin HabitQueryset(req.user, "list", Empty)

\* C4: the habit listing of a user holds exactly the user's habits whose
\* archive state the filter selects: the archived ones for archived=true or 1,
\* the active ones for archived=false or 0 or no parameter.
C4_ListMatchesFilter ==
    (/\ req.op = "habit_list"
     /\ req.user \in Users
     /\ ("archived" \in DOMAIN req.params
            => req.params.archived \in {"true", "1", "false", "0"}))
    => /\ resp.status = 200
       /\ resp.body \subseteq DOMAIN habits
       /\ \A h \in DOMAIN habits :
            h \in resp.body <=>
                /\ habits[h].user = req.user
                /\ IF "archived" \in DOMAIN req.params
                      /\ req.params.archived \in {"true", "1"}
                   THEN habits[h].archived_at # NULL
                   ELSE habits[h].archived_at = NULL

C4_Witness ==
    /\ req.op = "habit_list"
    /\ req.params = [archived |-> "true"]
    /\ resp.body # {}
    /\ DOMAIN habits \ resp.body # {}

\* C5 as stated: the entries stay unique in (habit, entry_date), and a create
\* that names the pair of a stored entry fails with a non-field validation
\* error and adds no row.
C5_DuplicateIsNonFieldError ==
    [][/\ Unique(entries')
       /\ (req'.op = "entry_create" /\ req'.user \in Users
              /\ Duplicate(req'.data))
          => (resp'.status = 400 /\ NonField(resp'.errs) /\ UNCHANGED store)]_vars

\* C5 as amended: the entries stay unique in (habit, entry_date), and a create
\* that names the pair of a stored entry fails with a validation error and
\* adds no row; the error is a non-field one when the habit is the caller's
\* and active and the value, if given, is not negative.
C5_DuplicateRejected ==
    [][/\ Unique(entries')
       /\ (req'.op = "entry_create" /\ req'.user \in Users
              /\ Duplicate(req'.data))
          => /\ resp'.status = 400
             /\ resp'.errs # NoErrors
             /\ UNCHANGED store
             /\ (/\ habits[req'.data.habit].user = req'.user
                 /\ habits[req'.data.habit].archived_at = NULL
                 /\ ("value" \in DOMAIN req'.data => req'.data.value >= 0))
                => NonField(resp'.errs)]_vars

C5_Witness ==
    /\ req.op = "entry_create"
    /\ Duplicate(req.data)
    /\ resp.status = 400
    /\ resp.errs = {<<"non_field_errors", "unique">>}
    /\ Cardinality(DOMAIN entries) = 2

\* C6: a create that completes when an entry with its (habit, entry_date) is
\* stored (the request it raced has won) fails with a validation error and
\* stores nothing.
C6_RaceLoserGetsValidationError ==
    [][(req'.op = "entry_create" /\ Duplicate(req'.data))
       => (resp'.status = 400 /\ UNCHANGED store)]_vars

\* C7: every stored entry of a singular habit has value 1 and every stored
\* entry of a timed habit has a value above 0.
C7_ValueMatchesType ==
    \A e \in DOMAIN entries :
        ~BadValue(habits[entries[e].habit].type, entries[e].value)

\* C8: an update or partial update of the caller's entry that carries a value
\* the type of the entry's habit (the one the payload names, else the stored
\* one) does not admit is rejected with a validation error and changes no row.
C8_UpdateRevalidatesValue ==
    [][(/\ req'.op \in EntryUpdateOps
        /\ req'.user \in Users
        /\ req'.pk \in EntryQueryset(req'.user, req'.params)
        /\ "value" \in DOMAIN req'.data
        /\ LET parent == Get(req'.data, "habit", entries[req'.pk].habit)
           IN  /\ parent \in DOMAIN habits
               /\ BadValue(habits[parent].type, req'.data.value))
       => (resp'.status = 400 /\ UNCHANGED store)]_vars

\* C9: a create that names an active habit of the caller and carries a value
\* is rejected with a validation error and stores nothing when the habit's
\* type does not admit the value; otherwise, when it carries a date and no
\* entry has its pair, it is accepted and stores a row with that value.
C9_CreateValueRule ==
    [][(/\ req'.op = "entry_create"
        /\ req'.user \in Users
        /\ {"habit", "value"} \subseteq DOMAIN req'.data
        /\ req'.data.habit \in DOMAIN habits
        /\ habits[req'.data.habit].user = req'.user
        /\ habits[req'.data.habit].archived_at = NULL)
       => IF BadValue(habits[req'.data.habit].type, req'.data.value)
          THEN resp'.status = 400 /\ resp'.errs # NoErrors /\ UNCHANGED store
          ELSE ("entry_date" \in DOMAIN req'.data /\ ~Duplicate(req'.data))
               => /\ resp'.status = 201
                  /\ resp'.id \notin DOMAIN entries
                  /\ entries' = entries @@
                        (resp'.id :> [habit |-> req'.data.habit,
                                      user |-> req'.user,
                                      entry_date |-> req'.data.entry_date,
                                      value |-> req'.data.value])]_vars

C9_Witness ==
    /\ req.op = "entry_create"
    /\ resp.status = 201
    /\ "value" \in DOMAIN req.data
    /\ req.data.value = 2
    /\ habits[req.data.habit].type = TIMED
    /\ entries[resp.id].value = 2

\* C10: a create that names a habit of another user fails with a validation
\* error on the habit field and stores nothing.
C10_ForeignHabitRejected ==
    [][(/\ req'.op = "entry_create"
        /\ req'.user \in Users
        /\ "habit" \in DOMAIN req'.data
        /\ req'.data.habit \in DOMAIN habits
        /\ habits[req'.data.habit].user # req'.user)
       => /\ resp'.status = 400
          /\ \E e \in resp'.errs : e[1] = "habit"
          /\ UNCHANGED store]_vars

C10_Witness ==
    /\ req.op = "entry_create"
    /\ req.user \in Users
    /\ resp.status = 400
    /\ <<"habit", "not_owner">> \in resp.errs
    /\ habits[req.data.habit].archived_at = NULL
    /\ entries = Empty

\* C11: a create that names a habit of the caller whose archived_at is set
\* fails with a validation error and stores nothing; so every step that adds
\* an entry adds it to a habit that is active when the request is handled.
C11_ArchivedHabitRejected ==
    [][/\ (/\ req'.op = "entry_create"
           /\ req'.user \in Users
           /\ "habit" \in DOMAIN req'.data
           /\ req'.data.habit \in DOMAIN habits
           /\ habits[req'.data.habit].user = req'.user
           /\ habits[req'.data.habit].archived_at # NULL)
          => /\ resp'.status = 400
             /\ resp'.errs # NoErrors
             /\ UNCHANGED store
       /\ \A e \in DOMAIN entries' \ DOMAIN entries :
             /\ entries'[e].habit \in DOMAIN habits
             /\ habits[entries'[e].habit].archived_at = NULL]_vars

C11_Witness ==
    /\ req.op = "entry_create"
    /\ req.user \in Users
    /\ resp.status = 400
    /\ resp.errs = {<<"habit", "archived">>}
    /\ habits[req.data.habit].user = req.user
    /\ habits[req.data.habit].archived_at # NULL
    /\ entries # Empty

\* C12: archive by the owner on a habit that is archived, and unarchive by the
\* owner on a habit that is active, change no row and answer success with the
\* habit as it is stored; so the second of two such requests in a row changes
\* nothing.
C12_ArchiveUnarchiveIdempotent ==
    [][(/\ req'.op \in {"habit_archive", "habit_unarchive"}
        /\ req'.pk \in DOMAIN habits
        /\ habits[req'.pk].user = req'.user
        /\ (req'.op = "habit_archive") = (habits[req'.pk].archived_at # NULL))
       => /\ UNCHANGED store
          /\ resp' = Response(200, req'.pk, NoErrors, {habits[req'.pk]})]_vars

\* archive answered on a habit whose timestamp no archive request sets
C12_Witness ==
    /\ req.op = "habit_archive"
    /\ resp.status = 200
    /\ habits[req.pk].archived_at \notin Times \cup {NULL}
    /\ resp.body = {habits[req.pk]}

\* C13: archive by the owner on an active habit sets archived_at to a
\* timestamp, unarchive by the owner on an archived habit sets it to NULL, each
\* changes nothing else and answers success with the habit as stored after
\* it; and whenever the server takes a request the owner of a habit can send
\* either, whatever came before.
C13_ArchiveUnarchiveTransitions ==
    [][/\ (/\ req'.op \in {"habit_archive", "habit_unarchive"}
           /\ req'.pk \in DOMAIN habits
           /\ habits[req'.pk].user = req'.user
           /\ (req'.op = "habit_archive") = (habits[req'.pk].archived_at = NULL))
          => /\ \E t \in Times \cup {NULL} :
                  /\ (t = NULL) = (req'.op = "habit_unarchive")
                  /\ habits' = [habits EXCEPT ![req'.pk].archived_at = t]
             /\ UNCHANGED <<entries, nextHabitId, nextEntryId>>
             /\ resp' = Response(200, req'.pk, NoErrors, {habits'[req'.pk]})
       /\ Idle => \A h \in DOMAIN habits :
             /\ ENABLED HabitArchive(habits[h].user, h, 1)
             /\ ENABLED HabitUnarchive(habits[h].user, h)]_vars

\* an archive request answered with a timestamp that only archive sets
C13_Witness ==
    /\ req.op = "habit_archive"
    /\ resp.status = 200
    /\ \E row \in resp.body : row.archived_at = 2 /\ row = habits[req.pk]
    /\ \E e \in DOMAIN entries : entries[e].habit = req.pk

\* C14: after a destroy or an archive of a habit by its owner every entry that
\* named the habit before the request is stored unchanged.
C14_HistoryRetained ==
    [][(/\ req'.op \in {"habit_destroy", "habit_archive"}
        /\ req'.pk \in DOMAIN habits
        /\ habits[req'.pk].user = req'.user)
       => \A e \in DOMAIN entries :
             entries[e].habit = req'.pk
                => (e \in DOMAIN entries' /\ entries'[e] = entries[e])]_vars

C15_WitnessForeignHabit ==
    /\ req.op = "entry_list"
    /\ req.user \in Users
    /\ "habit_id" \in DOMAIN req.params
    /\ \E e \in DOMAIN entries :
          /\ ToString(entries[e].habit) = req.params.habit_id
          /\ entries[e].user # req.user
    /\ resp.body = {}

\* C16: the owner of a habit made by a create request is the caller of the
\* request, whatever user the payload names, and no step changes the owner of
\* a stored habit.
C16_OwnerIsCallerAndFixed ==
    [][/\ (req'.op = "habit_create" /\ resp'.status = 201)
          => /\ resp'.id \in DOMAIN habits' \ DOMAIN habits
             /\ habits'[resp'.id].user = req'.user
       /\ \A h \in DOMAIN habits \cap DOMAIN habits' :
             habits'[h].user = habits[h].user]_vars

C16_Witness ==
    /\ req.op = "habit_create"
    /\ resp.status = 201
    /\ "user" \in DOMAIN req.data
    /\ req.data.user # req.user
    /\ habits[resp.id].user = req.user

\* C17: the name of every stored habit has at least 3 characters: a create or
\* an update that carries a name of fewer is rejected with a validation error
\* on the name and changes no row.
C17_NameAtLeastThree ==
    [][/\ \A h \in DOMAIN habits' : Len(habits'[h].name) >= 3
       /\ (/\ req'.op \in {"habit_create", "habit_update", "habit_partial_update"}
           /\ req'.user \in Users
           /\ (req'.op # "habit_create"
                  => req'.pk \in HabitQueryset(req'.user, "update", Empty))
           /\ "name" \in DOMAIN req'.data
           /\ Len(req'.data.name) < 3)
          => /\ resp'.status = 400
             /\ \E e \in resp'.errs : e[1] = "name"
             /\ UNCHANGED store]_vars

C17_Witness ==
    /\ req.op = "habit_partial_update"
    /\ resp.status = 400
    /\ req.data = [name |-> "ab"]
    /\ habits[req.pk].name = "Run"

\* C18: the habit a create request answered with success has made is active:
\* its archived_at is NULL.
C18_CreatedHabitIsActive ==
    (req.op = "habit_create" /\ resp.status = 201)
    => /\ resp.id \in DOMAIN habits
       /\ habits[resp.id].archived_at = NULL

AllOps ==
    {"habit_list", "habit_create", "entry_list", "entry_create"}
    \cup HabitDetailOps \cup EntryDetailOps

\* C19: every habit and entry request without an authenticated caller is
\* answered unauthorized, with no row in the response, and changes no row.
C19_AnonymousRejected ==
    [][(req'.op \in AllOps /\ req'.user = Anon)
       => /\ resp' = Response(401, 0, NoErrors, NoBody)
          /\ UNCHANGED store]_vars

C19_Witness ==
    /\ req.op = "entry_destroy"
    /\ req.user = Anon
    /\ resp.status = 401
    /\ req.pk \in DOMAIN entries
    /\ \E h \in DOMAIN habits : habits[h].archived_at = NULL

\* C20: a destroy of an entry by its owner removes the entry's row and changes
\* no other entry and no habit, and leaves the entry's (habit, entry_date)
\* free; a create on a free pair of an active habit of the caller, with no
\* value or one the habit's type admits, stores the entry.
C20_EntryDestroyIsHardDelete ==
    [][/\ (/\ req'.op = "entry_destroy"
           /\ req'.user \in Users
           /\ req'.pk \in EntryQueryset(req'.user, req'.params))
          => /\ resp'.status = 204
             /\ DOMAIN entries' = DOMAIN entries \ {req'.pk}
             /\ \A e \in DOMAIN entries' : entries'[e] = entries[e]
             /\ UNCHANGED <<habits, nextHabitId>>
             /\ ~\E e \in DOMAIN entries' :
                   /\ entries'[e].habit = entries[req'.pk].habit
                   /\ entries'[e].entry_date = entries[req'.pk].entry_date
       /\ (/\ req'.op = "entry_create"
           /\ req'.user \in Users
           /\ {"habit", "entry_date"} \subseteq DOMAIN req'.data
           /\ req'.data.habit \in DOMAIN habits
           /\ habits[req'.data.habit].user = req'.user
           /\ habits[req'.data.habit].archived_at = NULL
           /\ ~Duplicate(req'.data)
           /\ ("value" \in DOMAIN req'.data =>
                 ~BadValue(habits[req'.data.habit].type, req'.data.value)))
          => /\ resp'.status = 201
             /\ resp'.id \in DOMAIN entries' \ DOMAIN entries
             /\ entries'[resp'.id].habit = req'.data.habit
             /\ entries'[resp'.id].entry_date = req'.data.entry_date]_vars

C20_Witness ==
    /\ req.op = "entry_destroy"
    /\ req.user \in Users
    /\ resp.status = 204
    /\ req.pk \notin DOMAIN entries
    /\ entries # Empty

\* a create answered with success after the only entry stored before it was
\* destroyed (no habit was ever removed)
C20_WitnessRecreate ==
    /\ req.op = "entry_create"
    /\ resp.status = 201
    /\ DOMAIN entries = {2}
    /\ DOMAIN habits = {1}
    /\ nextHabitId = 2

WriteOps ==
    {"habit_create", "habit_update", "habit_partial_update",
     "entry_create", "entry_update", "entry_partial_update"}

\* C21: a create, update or partial update of a habit or of an entry that is
\* answered with a validation error leaves the habit table and the entry
\* table as they were.
C21_RejectedWritesChangeNothing ==
    [][(req'.op \in WriteOps /\ resp'.status = 400)
       => (resp'.errs # NoErrors /\ UNCHANGED store)]_vars

\* an update with a valid value and an invalid habit, rejected
C21_Witness ==
    /\ req.op = "entry_update"
    /\ resp.status = 400
    /\ "value" \in DOMAIN req.data
    /\ req.data.value # entries[req.pk].value
    /\ <<"habit", "not_owner">> \in resp.errs

C23_ExportIsCallersData ==
    [][(req'.op = "export" /\ resp'.status = 200)
       => /\ UNCHANGED store
          /\ Cardinality(resp'.body) = 1
          /\ \A doc \in resp'.body :
                LET mine == {h \in DOMAIN habits : habits[h].user = req'.user}
                    active == {h \in mine : habits[h].archived_at = NULL}
                IN  /\ {h.id : h \in doc.habits} = mine
                    /\ {e.id : e \in doc.entries} =
                          {e \in DOMAIN entries : entries[e].user = req'.user}
                    /\ doc.format = "json" =>
                          /\ doc.summary.active_habits = Cardinality(active)
                          /\ doc.summary.archived_habits =
                                Cardinality(mine \ active)
                          /\ doc.summary.total_habits =
                                doc.summary.active_habits
                                + doc.summary.archived_habits]_vars

C23_Witness ==
    /\ req.op = "export"
    /\ resp.status = 200
    /\ \E doc \in resp.body :
          /\ doc.format = "json"
          /\ doc.summary.active_habits = 0
          /\ doc.summary.archived_habits = 1
          /\ doc.entries # {}
    /\ \E h \in DOMAIN habits : habits[h].user # req.user
    /\ \E e \in DOMAIN entries : entries[e].user # req.user

\* C24: the user of every stored entry is the owner of the habit the entry
\* names; the user of a created entry is the caller of the create request,
\* whatever user the payload names, and no step changes it.
C24_EntryUserIsHabitOwner ==
    [][/\ \A e \in DOMAIN entries' :
             /\ entries'[e].habit \in DOMAIN habits'
             /\ entries'[e].user = habits'[entries'[e].habit].user
       /\ (req'.op = "entry_create" /\ resp'.status = 201)
             => entries'[resp'.id].user = req'.user
       /\ \A e \in DOMAIN entries \cap DOMAIN entries' :
             entries'[e].user = entries[e].user]_vars

C24_Witness ==
    /\ req.op = "entry_create"
    /\ resp.status = 201
    /\ "user" \in DOMAIN req.data
    /\ req.data.user # req.user
    /\ entries[resp.id].user = req.user
    /\ \E h \in DOMAIN habits : habits[h].user = req.data.user

\* C25: the archived_at of a stored habit changes in a destroy, archive or
\* unarchive request only: an update or partial update leaves it as it is,
\* whatever the payload carries.
C25_UpdateKeepsArchivedAt ==
    [][\A h \in DOMAIN habits \cap DOMAIN habits' :
          habits'[h].archived_at # habits[h].archived_at
             => req'.op \in {"habit_destroy", "habit_archive", "habit_unarchive"}]_vars

\* A create of an authenticated caller that names a stored habit and a date
\* and carries no negative value
OrderedCreate ==
    /\ req.op = "entry_create"
    /\ req.user \in Users
    /\ {"habit", "entry_date"} \subseteq DOMAIN req.data
    /\ req.data.habit \in DOMAIN habits
    /\ ("value" \in DOMAIN req.data => req.data.value >= 0)

ValueRuleErrors ==
    {<<"non_field_errors", "singular_value">>, <<"non_field_errors", "timed_value">>}

\* The pair of the request is held by an entry stored before the request
\* (a rejected create stores nothing, so the table is as the request met it)
PairTaken ==
    \E e \in DOMAIN entries :
        /\ entries[e].habit = req.data.habit
        /\ entries[e].entry_date = req.data.entry_date

ValueBreaksRule ==
    /\ "value" \in DOMAIN req.data
    /\ BadValue(habits[req.data.habit].type, req.data.value)

\* C26 as stated: a rejected create carries the error of the first rule it
\* breaks in the order owner of the habit, habit not archived, value rule of
\* the habit's type, uniqueness of (habit, entry_date).
C26_OrderValueBeforeUnique ==
    (OrderedCreate /\ resp.status = 400)
    => IF habits[req.data.habit].user # req.user
       THEN resp.errs = {<<"habit", "not_owner">>}
       ELSE IF habits[req.data.habit].archived_at # NULL
       THEN resp.errs = {<<"habit", "archived">>}
       ELSE IF ValueBreaksRule
       THEN resp.errs # {} /\ resp.errs \subseteq ValueRuleErrors
       ELSE resp.errs = {<<"non_field_errors", "unique">>}

\* C26 as amended: a rejected create carries the error of the first rule it
\* breaks in the order owner of the habit, habit not archived, uniqueness of
\* (habit, entry_date), value rule of the habit's type.
C26_OrderUniqueBeforeValue ==
    (OrderedCreate /\ resp.status = 400)
    => IF habits[req.data.habit].user # req.user
       THEN resp.errs = {<<"habit", "not_owner">>}
       ELSE IF habits[req.data.habit].archived_at # NULL
       THEN resp.errs = {<<"habit", "archived">>}
       ELSE IF PairTaken
       THEN resp.errs = {<<"non_field_errors", "unique">>}
       ELSE ValueBreaksRule /\ resp.errs # {} /\ resp.errs \subseteq ValueRuleErrors

C26_Witness ==
    /\ OrderedCreate
    /\ resp.status = 400
    /\ habits[req.data.habit].user = req.user
    /\ habits[req.data.habit].archived_at = NULL
    /\ PairTaken
    /\ ValueBreaksRule
    /\ resp.errs = {<<"non_field_errors", "unique">>}

\* a create on a habit that is another user's and archived
C26_WitnessForeignArchived ==
    /\ OrderedCreate
    /\ habits[req.data.habit].user # req.user
    /\ habits[req.data.habit].archived_at # NULL
    /\ resp.errs = {<<"habit", "not_owner">>}

\* C27: a step that removes a habit's row removes the entries that name the
\* habit and no other entry, so every stored entry names a stored habit.
C27_CascadeExact ==
    [][/\ \A h \in DOMAIN habits \ DOMAIN habits' :
             /\ DOMAIN entries' =
                   {e \in DOMAIN entries : entries[e].habit # h}
             /\ \A e \in DOMAIN entries' : entries'[e] = entries[e]
       /\ \A e \in DOMAIN entries' : entries'[e].habit \in DOMAIN habits']_vars

\* a habit removed with its entry while the entry of the other habit stays
C27_Witness ==
    /\ req.op = "habit_destroy"
    /\ resp.status = 204
    /\ req.pk \notin DOMAIN habits
    /\ nextEntryId = 3
    /\ Cardinality(DOMAIN entries) = 1

\* C28: retrieve, update, partial update, destroy, archive and unarchive by
\* the owner reach a habit that is archived: the answer is never not-found,
\* and unarchive makes the habit active.
C28_ArchivedHabitReachable ==
    [][(/\ req'.op \in HabitDetailOps
        /\ req'.pk \in DOMAIN habits
        /\ habits[req'.pk].user = req'.user
        /\ habits[req'.pk].archived_at # NULL)
       => /\ resp'.status \in {200, 204, 400}
          /\ (resp'.status = 400
                 => req'.op \in {"habit_update", "habit_partial_update"})
          /\ (req'.op = "habit_unarchive"
                 => resp'.status = 200 /\ habits'[req'.pk].archived_at = NULL)]_vars

C28_Witness ==
    /\ req.op = "habit_retrieve"
    /\ resp.status = 200
    /\ habits[req.pk].archived_at # NULL
    /\ resp.body = {habits[req.pk]}

\* C29: a habit listing whose archived parameter is none of true, 1, false, 0
\* in any case of the letters is answered with all habits of the caller,
\* active and archived, and with no habit of another user.
C29_UnknownArchivedValueListsAll ==
    (/\ req.op = "habit_list"
     /\ req.user \in Users
     /\ "archived" \in DOMAIN req.params
     /\ req.params.archived \notin
           {"true", "True", "TRUE", "1", "false", "False", "FALSE", "0"})
    => /\ resp.status = 200
       /\ resp.body = {h \in DOMAIN habits : habits[h].user = req.user}

C29_Witness ==
    /\ req.op = "habit_list"
    /\ req.params = [archived |-> "all"]
    /\ \E h \in resp.body : habits[h].archived_at # NULL
    /\ \E h \in resp.body : habits[h].archived_at = NULL

\* the parameter in capitals selects as in small letters
C29_CaseInsensitive ==
    (req.op = "habit_list" /\ req.user \in Users)
    => /\ req.params = [archived |-> "TRUE"]
          => resp.body = {h \in DOMAIN habits :
                            habits[h].user = req.user
                            /\ habits[h].archived_at # NULL}
       /\ req.params = [archived |-> "False"]
          => resp.body = {h \in DOMAIN habits :
                            habits[h].user = req.user
                            /\ habits[h].archived_at = NULL}

\* C30: an entry update, full or partial, whose payload names a habit of
\* another user or an archived habit is answered 400 and leaves the entry,
\* and every other row, as it was; an entry never moves to such a habit.
C30_RepointRejected ==
    [][/\ (/\ req'.op \in EntryUpdateOps
           /\ req'.user \in Users
           /\ req'.pk \in EntryQueryset(req'.user, req'.params)
           /\ "habit" \in DOMAIN req'.data
           /\ req'.data.habit \in DOMAIN habits
           /\ \/ habits[req'.data.habit].user # req'.user
              \/ habits[req'.data.habit].archived_at # NULL)
          => /\ resp'.status = 400
             /\ \E e \in resp'.errs : e[1] = "habit"
             /\ entries' = entries
             /\ habits' = habits
       /\ \A e \in DOMAIN entries \cap DOMAIN entries' :
             entries'[e].habit # entries[e].habit
             => /\ habits[entries'[e].habit].user = entries[e].user
                /\ habits[entries'[e].habit].archived_at = NULL]_vars

C30_Witness ==
    /\ req.op = "entry_partial_update"
    /\ resp.status = 400
    /\ req.pk \in DOMAIN entries
    /\ entries[req.pk].user = req.user
    /\ "habit" \in DOMAIN req.data
    /\ req.data.habit \in DOMAIN habits
    /\ habits[req.data.habit].archived_at # NULL
    /\ habits[req.data.habit].user = req.user
    /\ req.data.habit # entries[req.pk].habit
    /\ <<"habit", "archived">> \in resp.errs

C30_WitnessForeign ==
    /\ req.op = "entry_update"
    /\ resp.status = 400
    /\ req.pk \in DOMAIN entries
    /\ entries[req.pk].user = req.user
    /\ "habit" \in DOMAIN req.data
    /\ req.data.habit \in DOMAIN habits
    /\ habits[req.data.habit].user # req.user
    /\ <<"habit", "not_owner">> \in resp.errs

\* "no entry ever changes its habit": expected to be violated, which shows
\* that updates naming an active habit of the caller do move the entry
C30_NoMove ==
    [][\A e \in DOMAIN entries \cap DOMAIN entries' :
          entries'[e].habit = entries[e].habit]_vars

====
